---- MODULE Spec2Model ----
(***************************************************************************)
(* Model of fftools/ffmpeg_hw.c: the hardware device registry, the device  *)
(* specification parser, the codec capability matcher, the decode/encode   *)
(* binders and the audio remix transform.                                  *)
(*                                                                         *)
(* C strings are sequences of one-character strings; a pointer into a C    *)
(* string is a 0-based offset; a HWDevice pointer is the 1-based index of  *)
(* the device in hw_devices, 0 being the null pointer; an AVBufferRef is   *)
(* the id of the buffer it refers to, 0 being the null pointer.            *)
(***************************************************************************)
EXTENDS Integers, Sequences, FiniteSets, TLC

VARIABLES hw_devices, refcnt, ist, frame, call, apply

vars == <<hw_devices, refcnt, ist, frame, call, apply>>

(***************************** bounds **************************************)
\* The registry never grows beyond MaxDevices devices.
MaxDevices == 2
\* Ids of hardware context buffers the runtime can hand out.
MaxCtx == 2
\* Entries of a codec's hardware-config table.
MaxConfigs == 2
\* Planes of a decoded frame, entries of a remix map.
MaxPlanes == 3
MaxMap == 3
\* Packets of the input, frames the decoder gives for one packet.
MaxPackets == 3
MaxFrames == 2
\* Nodes of a filter graph.
MaxFilters == 3

(************************** error codes ************************************)
ENOMEM == 12
EINVAL == 22
ENOSYS == 38
EIO == 5
AVERROR(e) == -e

NULL == 0

(*************************** C strings *************************************)
NUL == "\\0"

Min(S) == CHOOSE x \in S : \A y \in S : x <= y

\* The character at offset k of s (the terminating NUL at offset Len(s)).
CharAt(s, k) == IF k < Len(s) THEN s[k + 1] ELSE NUL

\* The string that starts at offset k of s.
StrFrom(s, k) == SubSeq(s, k + 1, Len(s))

strcspn(s, reject) ==
    LET hits == {i \in 1..Len(s) : s[i] \in reject}
    IN  IF hits = {} THEN Len(s) ELSE Min(hits) - 1

\* Offset of the first c in s, or -1 where C returns a null pointer.
strchr(s, c) ==
    LET hits == {i \in 1..Len(s) : s[i] = c}
    IN  IF hits = {} THEN -1 ELSE Min(hits) - 1

av_strndup(s, k) == SubSeq(s, 1, k)

Digit(d) == <<"0", "1", "2", "3", "4", "5", "6", "7", "8", "9">>[d + 1]

RECURSIVE Decimal(_)
\* What "%d" prints for a non-negative int.
Decimal(n) == IF n < 10 THEN <<Digit(n)>> ELSE Decimal(n \div 10) \o <<Digit(n % 10)>>

(************************* device types ************************************)
AV_HWDEVICE_TYPE_NONE == "NONE"
HWDeviceTypes == {"CUDA", "VAAPI"}

av_hwdevice_get_type_name(type) ==
    IF type = "CUDA" THEN <<"c", "u", "d", "a">> ELSE <<"v", "a", "a", "p", "i">>

av_hwdevice_find_type_by_name(name) ==
    IF \E t \in HWDeviceTypes : av_hwdevice_get_type_name(t) = name
    THEN CHOOSE t \in HWDeviceTypes : av_hwdevice_get_type_name(t) = name
    ELSE AV_HWDEVICE_TYPE_NONE

(************************** the registry ***********************************)
nb_hw_devices == Len(hw_devices)

RECURSIVE get_by_type_first(_, _, _, _)
\* hw_device_get_by_type without the check for a second device of the type.
get_by_type_first(devs, type, i, found) ==
    IF i > Len(devs) THEN found
    ELSE IF devs[i].type = type THEN i
         ELSE get_by_type_first(devs, type, i + 1, found)

RECURSIVE get_by_type_loop(_, _, _, _)
\* The loop of hw_device_get_by_type from index i on, found being the
\* device seen so far.
get_by_type_loop(devs, type, i, found) ==
    IF i > Len(devs) THEN found
    ELSE IF devs[i].type = type
         THEN IF found # NULL THEN NULL
              ELSE get_by_type_loop(devs, type, i + 1, i)
         ELSE get_by_type_loop(devs, type, i + 1, found)

hw_device_get_by_type(devs, type) == get_by_type_loop(devs, type, 1, NULL)

\* The loop of hw_device_get_by_name from index i on: the first device named
\* name, or a null pointer.
get_by_name_loop(devs, name, i) ==
    IF \A j \in i..Len(devs) : devs[j].name # name THEN NULL
    ELSE CHOOSE j \in i..Len(devs) :
             /\ devs[j].name = name
             /\ \A k \in i..(j - 1) : devs[k].name # name

hw_device_get_by_name(devs, name) == get_by_name_loop(devs, name, 1)

\* av_mallocz(sizeof(HWDevice))
ZeroDevice == [name |-> <<>>, type |-> AV_HWDEVICE_TYPE_NONE, device_ref |-> NULL]

\* hw_device_add counting the new slot before the device is allocated.
hw_device_add_counts_early(devs, fail) ==
    IF fail = "realloc" THEN [dev |-> NULL, devs |-> <<>>]
    ELSE IF fail = "mallocz" THEN [dev |-> NULL, devs |-> Append(devs, ZeroDevice)]
    ELSE [dev |-> Len(devs) + 1, devs |-> Append(devs, ZeroDevice)]

\* fail names the allocation that fails in this call, if any. A failed
\* av_reallocp_array has freed the array and nb_hw_devices is set to 0.
hw_device_add(devs, fail) ==
    IF fail = "realloc" THEN [dev |-> NULL, devs |-> <<>>]
    ELSE IF fail = "mallocz" THEN [dev |-> NULL, devs |-> devs]
    ELSE [dev |-> Len(devs) + 1, devs |-> Append(devs, ZeroDevice)]

index_limit == 1000

\* hw_device_default_name without the lookup of the candidate name.
default_name_unchecked(devs, type_name, index) == index

\* The value of index when the loop of hw_device_default_name ends: the
\* first index from index on, below index_limit, whose name no device has,
\* or index_limit.
default_name_loop(devs, type_name, index) ==
    CHOOSE n \in index..index_limit :
        /\ n < index_limit
              => hw_device_get_by_name(devs, type_name \o Decimal(n)) = NULL
        /\ \A m \in index..(n - 1) :
              hw_device_get_by_name(devs, type_name \o Decimal(m)) # NULL

\* hw_device_default_name without the test of index against index_limit.
hw_device_default_name_no_limit(devs, type, fail) ==
    LET type_name == av_hwdevice_get_type_name(type)
        index == default_name_loop(devs, type_name, 0)
    IN  IF fail = "malloc_name" THEN [isnull |-> TRUE, name |-> <<>>]
        ELSE [isnull |-> FALSE, name |-> type_name \o Decimal(index)]

\* isnull: the function returns a null pointer.
hw_device_default_name(devs, type, fail) ==
    LET type_name == av_hwdevice_get_type_name(type)
        index == default_name_loop(devs, type_name, 0)
    IN  IF fail = "malloc_name" THEN [isnull |-> TRUE, name |-> <<>>]
        ELSE IF index >= index_limit THEN [isnull |-> TRUE, name |-> <<>>]
        ELSE [isnull |-> FALSE, name |-> type_name \o Decimal(index)]

(********************* reference-counted buffers ***************************)
\* refcnt[c] counts the references to buffer c that this file has taken and
\* not yet released (registry entries and streams); c is unallocated at 0.
FreeCtx(rc) == {c \in 1..MaxCtx : rc[c] = 0}

av_buffer_ref(rc, c) == [rc EXCEPT ![c] = @ + 1]

av_buffer_unref(rc, c) == IF c = NULL THEN rc ELSE [rc EXCEPT ![c] = @ - 1]

(*********************** the hardware runtime ******************************)
\* What the runtime answers to a creation request: err < 0, or err = 0 and
\* a new context; a derivation from a source of the requested type may
\* instead answer a new reference to the source's own context (share).
RuntimeOutcomes ==
    {[err |-> 0, share |-> FALSE], [err |-> 0, share |-> TRUE],
     [err |-> AVERROR(EIO), share |-> FALSE]}

\* av_hwdevice_ctx_create: capped is set when the model has no buffer id left.
av_hwdevice_ctx_create(rc, rt) ==
    IF rt.err < 0 THEN [err |-> rt.err, ref |-> NULL, rc |-> rc, capped |-> FALSE]
    ELSE IF FreeCtx(rc) = {} THEN [err |-> 0, ref |-> NULL, rc |-> rc, capped |-> TRUE]
    ELSE LET c == Min(FreeCtx(rc))
         IN  [err |-> 0, ref |-> c, rc |-> av_buffer_ref(rc, c), capped |-> FALSE]

av_hwdevice_ctx_create_derived(rc, type, src, rt) ==
    IF rt.err >= 0 /\ rt.share /\ src.type = type
    THEN [err |-> 0, ref |-> src.device_ref,
          rc |-> av_buffer_ref(rc, src.device_ref), capped |-> FALSE]
    ELSE av_hwdevice_ctx_create(rc, rt)

RECURSIVE av_dict_parse_string(_)
\* Pairs key=value separated by ','; a key ends at '=', a value at ','; an
\* empty key, a missing '=' or an empty value is an error. stored counts the
\* pairs put in the dictionary, which an error leaves in it.
av_dict_parse_string(str) ==
    IF str = <<>> THEN [err |-> 0, dict |-> <<>>, stored |-> 0]
    ELSE LET k == strcspn(str, {"="})
             key == av_strndup(str, k)
             rest == StrFrom(str, k + 1)
             v == strcspn(rest, {","})
             val == av_strndup(rest, v)
             next == IF CharAt(rest, v) = "," THEN StrFrom(rest, v + 1) ELSE StrFrom(rest, v)
         IN  IF key = <<>> \/ CharAt(str, k) # "=" \/ val = <<>>
             THEN [err |-> AVERROR(EINVAL), dict |-> <<>>, stored |-> 0]
             ELSE LET more == av_dict_parse_string(next)
                  IN  [err |-> more.err,
                       dict |-> IF more.err < 0 THEN <<>> ELSE <<<<key, val>>>> \o more.dict,
                       stored |-> 1 + more.stored]

(******************** hw_device_init_from_string ***************************)
\* The creation request handed to the runtime.
NoReq == [kind |-> "none"]

CreateReq(type, has_device, device, options) ==
    [kind |-> "create", type |-> type, has_device |-> has_device,
     device |-> device, options |-> options]

DerivedReq(type, src) == [kind |-> "derived", type |-> type, src |-> src]

\* The allocations of a call of an initializer, by the local variable that
\* holds them. mem is the account of a call: the allocations made, how many
\* times each was released, and the ones handed to the new registry entry.
AllocKinds == {"type_name", "name", "device", "options", "device_ref"}

NoMem == [made |-> {}, freed |-> [k \in AllocKinds |-> 0], kept |-> {}]

\* Label done: av_freep or av_dict_free of each of type_name, name, device
\* and options; loc is the set of those that are not null.
init_done(loc) == [k \in AllocKinds |-> IF k \in loc THEN 1 ELSE 0]

\* What a call of an initializer leaves: the return value, the registry, the
\* reference counts, the device stored through dev_out, the error message or
\* the failed step (why), the request made to the runtime, the account of
\* the allocations.
InitResult(err, devs, rc, why, dev, req, mem) ==
    [err |-> err, devs |-> devs, rc |-> rc, why |-> why, dev |-> dev,
     req |-> req, capped |-> FALSE, mem |-> mem]

\* Label fail: drops device_ref, then label done.
init_fail(err, devs, rc, device_ref, why, req, loc) ==
    InitResult(err, devs, av_buffer_unref(rc, device_ref), why, NULL, req,
        [made |-> IF device_ref # NULL THEN loc \cup {"device_ref"} ELSE loc,
         freed |-> [init_done(loc) EXCEPT !["device_ref"] = IF device_ref # NULL THEN 1 ELSE 0],
         kept |-> {}])

\* Label invalid: EINVAL, then label done.
init_invalid(devs, rc, errmsg, loc) ==
    InitResult(AVERROR(EINVAL), devs, rc, errmsg, NULL, NoReq,
        [made |-> loc, freed |-> init_done(loc), kept |-> {}])

\* Why av_dict_parse_string failed: the text is malformed (the logged
\* message), or the text is well formed and an allocation of the dictionary
\* failed ("dict"); both leave by label invalid.
OptionsWhy(parsed) == IF parsed.err < 0 THEN "failed to parse options" ELSE "dict"

\* options after av_dict_parse_string: not null once a pair is stored; the
\* allocation that fails is the first one.
init_options(parsed, fail, loc) ==
    IF fail # "dict" /\ parsed.stored > 0 THEN loc \cup {"options"} ELSE loc

\* The registration without dev->type = type.
init_register_untyped(devs, type, name, created, fail, req, loc) ==
    IF created.capped THEN [InitResult(0, devs, created.rc, "capped", NULL, req, NoMem)
                            EXCEPT !.capped = TRUE]
    ELSE IF created.err < 0
    THEN init_fail(created.err, devs, created.rc, NULL, "create", req, loc)
    ELSE LET a == hw_device_add(devs, fail)
         IN  IF a.dev = NULL
             THEN init_fail(AVERROR(ENOMEM), a.devs, created.rc, created.ref, fail, req, loc)
             ELSE InitResult(0,
                      [a.devs EXCEPT ![a.dev] =
                          [name |-> name, type |-> a.devs[a.dev].type,
                           device_ref |-> created.ref]],
                      created.rc, "ok", a.dev, req,
                      [made |-> loc \cup {"device_ref"},
                       freed |-> init_done(loc \ {"name"}),
                       kept |-> {"name", "device_ref"}])

\* The registration without name = NULL: label done frees the name the new
\* device holds.
init_register_frees_name(devs, type, name, created, fail, req, loc) ==
    IF created.capped THEN [InitResult(0, devs, created.rc, "capped", NULL, req, NoMem)
                            EXCEPT !.capped = TRUE]
    ELSE IF created.err < 0
    THEN init_fail(created.err, devs, created.rc, NULL, "create", req, loc)
    ELSE LET a == hw_device_add(devs, fail)
         IN  IF a.dev = NULL
             THEN init_fail(AVERROR(ENOMEM), a.devs, created.rc, created.ref, fail, req, loc)
             ELSE InitResult(0,
                      [a.devs EXCEPT ![a.dev] =
                          [name |-> name, type |-> type, device_ref |-> created.ref]],
                      created.rc, "ok", a.dev, req,
                      [made |-> loc \cup {"device_ref"},
                       freed |-> init_done(loc),
                       kept |-> {"name", "device_ref"}])

\* From hw_device_add() on: the new device takes name, type and device_ref,
\* and name = NULL keeps label done from freeing the name.
init_register(devs, type, name, created, fail, req, loc) ==
    IF created.capped THEN [InitResult(0, devs, created.rc, "capped", NULL, req, NoMem)
                            EXCEPT !.capped = TRUE]
    ELSE IF created.err < 0
    THEN init_fail(created.err, devs, created.rc, NULL, "create", req, loc)
    ELSE LET a == hw_device_add(devs, fail)
         IN  IF a.dev = NULL
             THEN init_fail(AVERROR(ENOMEM), a.devs, created.rc, created.ref, fail, req, loc)
             ELSE InitResult(0,
                      [a.devs EXCEPT ![a.dev] =
                          [name |-> name, type |-> type, device_ref |-> created.ref]],
                      created.rc, "ok", a.dev, req,
                      [made |-> loc \cup {"device_ref"},
                       freed |-> init_done(loc \ {"name"}),
                       kept |-> {"name", "device_ref"}])

\* The dispatch on *p once the name is known; p is the offset of *p in arg.
init_dispatch(devs, rc, arg, p, type, name, fail, rt, loc) ==
    LET c == CharAt(arg, p)
    IN  IF c = NUL
        THEN init_register(devs, type, name, av_hwdevice_ctx_create(rc, rt), fail,
                           CreateReq(type, FALSE, <<>>, <<>>), loc)
        ELSE IF c = ":"
        THEN LET s == StrFrom(arg, p + 1)
                 q == strchr(s, ",")
                 has_device == IF q >= 0 THEN q > 0 ELSE s # <<>>
                 device == IF q >= 0 THEN av_strndup(s, q) ELSE s
                 parsed == IF q >= 0 THEN av_dict_parse_string(StrFrom(s, q + 1))
                           ELSE [err |-> 0, dict |-> <<>>, stored |-> 0]
                 req == CreateReq(type, has_device, device, parsed.dict)
                 loc1 == IF q > 0 THEN loc \cup {"device"} ELSE loc
                 loc2 == init_options(parsed, fail, loc1)
             IN  IF q > 0 /\ fail = "strndup_device"
                 THEN init_fail(AVERROR(ENOMEM), devs, rc, NULL, fail, NoReq, loc)
                 ELSE IF q >= 0 /\ (parsed.err < 0 \/ fail = "dict")
                 THEN init_invalid(devs, rc, OptionsWhy(parsed), loc2)
                 ELSE init_register(devs, type, name, av_hwdevice_ctx_create(rc, rt),
                                    fail, req, loc2)
        ELSE IF c = "@"
        THEN LET src == hw_device_get_by_name(devs, StrFrom(arg, p + 1))
             IN  IF src = NULL
                 THEN init_invalid(devs, rc, "invalid source device name", loc)
                 ELSE init_register(devs, type, name,
                          av_hwdevice_ctx_create_derived(rc, type, devs[src], rt),
                          fail, DerivedReq(type, src), loc)
        ELSE IF c = ","
        THEN LET parsed == av_dict_parse_string(StrFrom(arg, p + 1))
                 loc2 == init_options(parsed, fail, loc)
             IN  IF parsed.err < 0 \/ fail = "dict"
                 THEN init_invalid(devs, rc, OptionsWhy(parsed), loc2)
                 ELSE init_register(devs, type, name, av_hwdevice_ctx_create(rc, rt),
                                    fail, CreateReq(type, FALSE, <<>>, parsed.dict), loc2)
        ELSE init_invalid(devs, rc, "parse error", loc)

\* hw_device_default_name returned a null pointer: label fail, the name
\* buffer having been allocated and freed in hw_device_default_name when no
\* index was free.
init_no_name(devs, rc, fail, loc) ==
    LET r == init_fail(AVERROR(ENOMEM), devs, rc, NULL,
                       IF fail = "malloc_name" THEN fail ELSE "no free name", NoReq, loc)
    IN  IF fail = "malloc_name" THEN r
        ELSE [r EXCEPT !.mem.made = @ \cup {"name"}, !.mem.freed["name"] = 1]

\* The explicit name after '=' or the default name.
init_name(devs, rc, arg, p, type, fail, rt, loc) ==
    IF CharAt(arg, p) = "="
    THEN LET k == strcspn(StrFrom(arg, p + 1), {":", "@", ","})
             name == av_strndup(StrFrom(arg, p + 1), k)
         IN  IF fail = "strndup_name"
             THEN init_fail(AVERROR(ENOMEM), devs, rc, NULL, fail, NoReq, loc)
             ELSE IF hw_device_get_by_name(devs, name) # NULL
             THEN init_invalid(devs, rc, "named device already exists", loc \cup {"name"})
             ELSE init_dispatch(devs, rc, arg, p + 1 + k, type, name, fail, rt,
                                loc \cup {"name"})
    ELSE LET dn == hw_device_default_name(devs, type, fail)
         IN  IF dn.isnull
             THEN init_no_name(devs, rc, fail, loc)
             ELSE init_dispatch(devs, rc, arg, p, type, dn.name, fail, rt,
                                loc \cup {"name"})

hw_device_init_from_string(devs, rc, arg, fail, rt) ==
    LET k == strcspn(arg, {":", "=", "@"})
        type_name == av_strndup(arg, k)
        type == av_hwdevice_find_type_by_name(type_name)
    IN  IF fail = "strndup_type"
        THEN init_fail(AVERROR(ENOMEM), devs, rc, NULL, fail, NoReq, {})
        ELSE IF type = AV_HWDEVICE_TYPE_NONE
        THEN init_invalid(devs, rc, "unknown device type", {"type_name"})
        ELSE init_name(devs, rc, arg, k, type, fail, rt, {"type_name"})

(********************* hw_device_init_from_type ****************************)
\* Label fail of hw_device_init_from_type frees name and drops device_ref, as
\* init_fail does with name the only local allocation; the successful return
\* frees nothing.
hw_device_init_from_type(devs, rc, type, has_device, device, fail, rt) ==
    LET dn == hw_device_default_name(devs, type, fail)
    IN  IF dn.isnull
        THEN init_no_name(devs, rc, fail, {})
        ELSE init_register(devs, type, dn.name, av_hwdevice_ctx_create(rc, rt), fail,
                           CreateReq(type, has_device, device, <<>>), {"name"})

(************************* hw_device_free_all ******************************)
RECURSIVE free_all_loop(_, _, _)
\* The reference counts after the loop of hw_device_free_all from index i on.
free_all_loop(devs, rc, i) ==
    IF i > Len(devs) THEN rc
    ELSE free_all_loop(devs, av_buffer_unref(rc, devs[i].device_ref), i + 1)

\* hw_device_free_all without nb_hw_devices = 0.
hw_device_free_all_keeps_count(devs, rc) ==
    [devs |-> devs, rc |-> free_all_loop(devs, rc, 1)]

hw_device_free_all(devs, rc) == [devs |-> <<>>, rc |-> free_all_loop(devs, rc, 1)]

(******************* the codec capability matcher **************************)
\* A codec is its hardware-config table: avcodec_get_hw_config(codec, i) is
\* codec[i + 1], and a null pointer from Len(codec) on.
AV_CODEC_HW_CONFIG_METHOD_HW_DEVICE_CTX == "HW_DEVICE_CTX"
AV_CODEC_HW_CONFIG_METHOD_HW_FRAMES_CTX == "HW_FRAMES_CTX"

RECURSIVE match_by_codec_first_entry(_, _, _)
\* hw_device_match_by_codec giving up at the first device-context entry.
match_by_codec_first_entry(devs, codec, i) ==
    IF i > Len(codec) THEN NULL
    ELSE IF AV_CODEC_HW_CONFIG_METHOD_HW_DEVICE_CTX \notin codec[i].methods
    THEN match_by_codec_first_entry(devs, codec, i + 1)
    ELSE hw_device_get_by_type(devs, codec[i].device_type)

RECURSIVE match_by_codec_loop(_, _, _)
match_by_codec_loop(devs, codec, i) ==
    IF i > Len(codec) THEN NULL
    ELSE IF AV_CODEC_HW_CONFIG_METHOD_HW_DEVICE_CTX \notin codec[i].methods
    THEN match_by_codec_loop(devs, codec, i + 1)
    ELSE LET dev == hw_device_get_by_type(devs, codec[i].device_type)
         IN  IF dev # NULL THEN dev ELSE match_by_codec_loop(devs, codec, i + 1)

hw_device_match_by_codec(devs, codec) == match_by_codec_loop(devs, codec, 1)

(********************* hw_device_setup_for_decode **************************)
HWACCEL_NONE == "HWACCEL_NONE"
HWACCEL_GENERIC == "HWACCEL_GENERIC"

RECURSIVE decode_loop(_, _, _, _)
\* How the for loop of hw_device_setup_for_decode is left from index i on:
\* by the return at a null config, or by the break with a device.
decode_loop(devs, codec, type, i) ==
    IF i > Len(codec) THEN [exit |-> "return", dev |-> NULL]
    ELSE IF AV_CODEC_HW_CONFIG_METHOD_HW_DEVICE_CTX \notin codec[i].methods
    THEN decode_loop(devs, codec, type, i + 1)
    ELSE IF codec[i].device_type = type /\ hw_device_get_by_type(devs, type) # NULL
    THEN [exit |-> "break", dev |-> hw_device_get_by_type(devs, codec[i].device_type)]
    ELSE decode_loop(devs, codec, type, i + 1)

BinderResult(err, s, rc, why, dev) ==
    [err |-> err, stream |-> s, rc |-> rc, why |-> why, dev |-> dev]

\* hw_device_setup_for_decode storing dev->device_ref in the stream without
\* av_buffer_ref.
hw_device_setup_for_decode_borrows(devs, rc, s, in, fault) ==
    IF in.hwaccel_id = HWACCEL_NONE
    THEN BinderResult(0, s, rc, "no request", NULL)
    ELSE LET l == decode_loop(devs, in.codec, in.hwaccel_device_type, 1)
         IN  IF l.exit = "return"
             THEN BinderResult(AVERROR(ENOSYS), s, rc,
                               "Decoder does not support any device type", NULL)
             ELSE IF fault = "avcodec_set_hw_device_ctx"
             THEN BinderResult(AVERROR(EIO), s, rc, fault, l.dev)
             ELSE BinderResult(0,
                      [s EXCEPT !.hw_device_ctx = devs[l.dev].device_ref,
                                !.hwaccel_device_ref = devs[l.dev].device_ref],
                      rc, "ok", l.dev)

\* An input stream is the decoder's bound device context (hw_device_ctx) and
\* the stream's own reference (hwaccel_device_ref). in is the stream's
\* request: hwaccel_id, hwaccel_device_type and the decoder (codec). fault
\* names the library call that fails, if any.
hw_device_setup_for_decode(devs, rc, s, in, fault) ==
    IF in.hwaccel_id = HWACCEL_NONE
    THEN BinderResult(0, s, rc, "no request", NULL)
    ELSE LET l == decode_loop(devs, in.codec, in.hwaccel_device_type, 1)
         IN  IF l.exit = "return"
             THEN BinderResult(AVERROR(ENOSYS), s, rc,
                               "Decoder does not support any device type", NULL)
             ELSE IF l.dev = NULL
             THEN BinderResult(AVERROR(EINVAL), s, rc,
                               "No suitable hwaccel device found", NULL)
             ELSE IF fault = "avcodec_set_hw_device_ctx"
             THEN BinderResult(AVERROR(EIO), s, rc, fault, l.dev)
             ELSE LET bound == [s EXCEPT !.hw_device_ctx = devs[l.dev].device_ref]
                  IN  IF fault = "av_buffer_ref"
                      THEN BinderResult(AVERROR(ENOMEM), bound, rc, fault, l.dev)
                      ELSE BinderResult(0,
                               [bound EXCEPT !.hwaccel_device_ref = devs[l.dev].device_ref],
                               av_buffer_ref(rc, devs[l.dev].device_ref), "ok", l.dev)

(********************* hw_device_setup_for_encode **************************)
RECURSIVE set_hwframe_ctx_loop_any_type(_, _, _, _, _)
\* set_hwframe_ctx without the test of the entry's device type.
set_hwframe_ctx_loop_any_type(s, codec, dev, fault, i) ==
    IF i > Len(codec) THEN s
    ELSE IF AV_CODEC_HW_CONFIG_METHOD_HW_FRAMES_CTX \notin codec[i].methods
    THEN set_hwframe_ctx_loop_any_type(s, codec, dev, fault, i + 1)
    ELSE IF fault = "avcodec_get_hw_frames_parameters" THEN s
    ELSE [s EXCEPT !.hw_frames_ctx = 1, !.pool_refs = @ + 1]

RECURSIVE set_hwframe_ctx_loop(_, _, _, _, _)
\* An output stream is its frame pool handle (hw_frames_ctx, 1 for the pool
\* the runtime negotiated), the references to that pool this file holds
\* (pool_refs) and the pool bound to the encoder (enc_hw_frames_ctx).
set_hwframe_ctx_loop(s, codec, dev, fault, i) ==
    IF i > Len(codec) THEN s
    ELSE IF AV_CODEC_HW_CONFIG_METHOD_HW_FRAMES_CTX \notin codec[i].methods
    THEN set_hwframe_ctx_loop(s, codec, dev, fault, i + 1)
    ELSE IF codec[i].device_type # dev.type
    THEN set_hwframe_ctx_loop(s, codec, dev, fault, i + 1)
    ELSE IF fault = "avcodec_get_hw_frames_parameters" THEN s
    ELSE [s EXCEPT !.hw_frames_ctx = 1, !.pool_refs = @ + 1]

set_hwframe_ctx(s, codec, dev, fault) == set_hwframe_ctx_loop(s, codec, dev, fault, 1)

\* hw_device_setup_for_encode returning the bind error without releasing
\* the pool.
hw_device_setup_for_encode_keeps_pool(devs, rc, s, in, fault) ==
    LET dev == hw_device_match_by_codec(devs, in.codec)
    IN  IF dev = NULL THEN BinderResult(0, s, rc, "no device", NULL)
        ELSE LET s1 == set_hwframe_ctx(s, in.codec, devs[dev], fault)
             IN  IF s1.hw_frames_ctx = NULL
                 THEN BinderResult(0, s1, rc, "no pool", dev)
                 ELSE IF fault = "avcodec_set_hw_frames_ctx"
                 THEN BinderResult(AVERROR(EIO), s1, rc, fault, dev)
                 ELSE BinderResult(0, [s1 EXCEPT !.enc_hw_frames_ctx = s1.hw_frames_ctx],
                                   rc, "ok", dev)

hw_device_setup_for_encode(devs, rc, s, in, fault) ==
    LET dev == hw_device_match_by_codec(devs, in.codec)
    IN  IF dev = NULL THEN BinderResult(0, s, rc, "no device", NULL)
        ELSE LET s1 == set_hwframe_ctx(s, in.codec, devs[dev], fault)
             IN  IF s1.hw_frames_ctx = NULL
                 THEN BinderResult(0, s1, rc, "no pool", dev)
                 ELSE IF fault = "avcodec_set_hw_frames_ctx"
                 THEN BinderResult(AVERROR(EIO),
                          [s1 EXCEPT !.hw_frames_ctx = NULL, !.pool_refs = @ - 1],
                          rc, fault, dev)
                 ELSE BinderResult(0, [s1 EXCEPT !.enc_hw_frames_ctx = s1.hw_frames_ctx],
                                   rc, "ok", dev)

(********************* hw_device_setup_for_filter **************************)
\* A filter graph is the number of inputs of its sink (nb_inputs), the
\* decoder avcodec_find_decoder resolves for the sink's input (has_decoder
\* and its table codec) and its filter nodes in order, each a filter name
\* and the value of its device option. fails is the set of nodes on which
\* av_opt_set fails; a failed av_opt_set leaves the node as it was.
RECURSIVE filter_loop_continues(_, _, _, _)
\* The loop going on to the next node after a failed av_opt_set.
filter_loop_continues(filters, name, fails, i) ==
    IF i > Len(filters) THEN [err |-> 0, filters |-> filters]
    ELSE IF filters[i].name # "hwupload"
    THEN filter_loop_continues(filters, name, fails, i + 1)
    ELSE IF i \in fails
    THEN [err |-> AVERROR(EINVAL),
          filters |-> filter_loop_continues(filters, name, fails, i + 1).filters]
    ELSE filter_loop_continues([filters EXCEPT ![i].device = name], name, fails, i + 1)

RECURSIVE filter_loop(_, _, _, _)
\* The loop over fg->graph->filters from node i on.
filter_loop(filters, name, fails, i) ==
    IF i > Len(filters) THEN [err |-> 0, filters |-> filters]
    ELSE IF filters[i].name # "hwupload"
    THEN filter_loop(filters, name, fails, i + 1)
    ELSE IF i \in fails
    THEN [err |-> AVERROR(EINVAL), filters |-> filters]
    ELSE filter_loop([filters EXCEPT ![i].device = name], name, fails, i + 1)

FilterResult(err, filters, why, dev) ==
    [err |-> err, filters |-> filters, why |-> why, dev |-> dev]

hw_device_setup_for_filter(devs, fg, fails) ==
    IF fg.nb_inputs = 0 THEN FilterResult(0, fg.filters, "no input", NULL)
    ELSE IF ~fg.has_decoder THEN FilterResult(0, fg.filters, "no decoder", NULL)
    ELSE LET dev == hw_device_match_by_codec(devs, fg.codec)
         IN  IF dev = NULL THEN FilterResult(0, fg.filters, "no device", NULL)
             ELSE LET l == filter_loop(fg.filters, devs[dev].name, fails, 1)
                  IN  FilterResult(l.err, l.filters,
                                   IF l.err < 0 THEN "av_opt_set" ELSE "ok", dev)

(***************************** remix_audio *********************************)
\* A frame is its planes (data[0..], one value standing for the samples of a
\* plane), the metadata remix_audio sets and the properties
\* av_frame_copy_props copies (pts). Audio is planar: one plane per channel
\* of channel_layout.
Samples == {"A", "B", "C"}

\* What a plane of a freshly allocated buffer may hold.
Uninitialized == Samples \cup {"garbage"}

RECURSIVE remix_copy_loop(_, _, _, _)
\* The copy loop from index i on (1-based): plane i of the new frame takes
\* plane remix_map[i] of the source. remix_map holds C's 0-based indices.
\* Where the program goes on after an access outside the frames, a read of
\* a plane the source does not have gives garbage and a write to a plane the
\* new frame does not have is lost.
remix_copy_loop(data, src, remix_map, i) ==
    IF i > Len(remix_map) THEN data
    ELSE LET plane == IF remix_map[i] \in 0..(Len(src) - 1) THEN src[remix_map[i] + 1]
                      ELSE "garbage"
         IN  remix_copy_loop(IF i <= Len(data) THEN [data EXCEPT ![i] = plane] ELSE data,
                             src, remix_map, i + 1)

RemixResult(err, f, why) == [err |-> err, frame |-> f, why |-> why]

\* remix_size is Len(remix_map). fresh is what av_frame_get_buffer's planes
\* hold before the copy. A copy into a plane the new frame does not have
\* (data[i] is a null pointer there), or from a plane the source does not
\* have, is undefined: the call does not return ("SIGSEGV"), or it goes on
\* and returns 0 ("out of bounds"); ub is the one that happens.
remix_audio(f, remix_map, fresh, fail, ub) ==
    LET outside == \E i \in 1..Len(remix_map) :
                       \/ i > Len(fresh)
                       \/ remix_map[i] < 0
                       \/ remix_map[i] >= Len(f.data)
    IN  IF fail = "av_frame_alloc"
        THEN RemixResult(AVERROR(ENOMEM), f, fail)
        ELSE IF fail = "av_frame_get_buffer"
        THEN RemixResult(AVERROR(ENOMEM), f, fail)
        ELSE IF outside /\ ub = "SIGSEGV"
        THEN RemixResult(0, f, "SIGSEGV")
        ELSE RemixResult(0,
                 [data |-> remix_copy_loop(fresh, f.data, remix_map, 1),
                  channel_layout |-> f.channel_layout,
                  sample_rate |-> f.sample_rate,
                  format |-> f.format,
                  nb_samples |-> f.nb_samples,
                  pts |-> f.pts],
                 IF outside THEN "out of bounds" ELSE "ok")

(************************** apply_audio_remix *******************************)
EAGAIN == 11
AVERROR_EOF == -541478725

\* Where the function goes next: "read" is the test of the outer while,
\* "send" line 450, "receive" the test of the inner while, "remix" line 457,
\* "after" line 466, "unref" line 471, "free" line 474, "done" the return.
\* The outer loop stopping at a packet of another stream.
apply_after_read_stops_at_mismatch(ret, stream_index, index) ==
    IF ret < 0 THEN "free"
    ELSE IF stream_index = index THEN "send" ELSE "free"

\* The test of the outer while and the test of the packet's stream.
apply_after_read(ret, stream_index, index) ==
    IF ret < 0 THEN "free"
    ELSE IF stream_index = index THEN "send" ELSE "unref"

\* if (ret < 0) break; after avcodec_send_packet.
apply_after_send(ret) == IF ret < 0 THEN "free" ELSE "receive"

\* The test of the inner while.
apply_after_receive(ret) == IF ret >= 0 THEN "remix" ELSE "after"

\* if (ret < 0) break; after remix_audio, in the inner loop.
apply_after_remix(ret) == IF ret < 0 THEN "after" ELSE "receive"

\* Lines 466-470: continue, break, or on to av_packet_unref.
apply_after_inner(ret) ==
    IF ret = AVERROR(EAGAIN) \/ ret = AVERROR_EOF THEN "read"
    ELSE IF ret < 0 THEN "free"
    ELSE "unref"

\* What the demuxer answers: a packet of the stream (index 0) or of another
\* stream, the end of the input, a read error.
ReadOutcomes ==
    {[ret |-> 0, stream_index |-> 0], [ret |-> 0, stream_index |-> 1],
     [ret |-> AVERROR_EOF, stream_index |-> 0], [ret |-> AVERROR(EIO), stream_index |-> 0]}

\* What avcodec_send_packet and avcodec_receive_frame return.
DecoderOutcomes == {0, AVERROR(EAGAIN), AVERROR_EOF, AVERROR(EINVAL)}

\* A use of the null frame is undefined: the call does not return
\* ("SIGSEGV"), or it goes on as if the frame were there ("goes on", as on a
\* target where address 0 is readable and writable memory).
NullFrameOutcomes == {"SIGSEGV", "goes on"}

\* remix_audio as apply_audio_remix calls it, with frame = NULL: the first
\* use of frame is remix_frame->channel_layout = frame->channel_layout.
remix_audio_null(fail, ub) ==
    IF fail = "av_frame_alloc" THEN [err |-> AVERROR(ENOMEM), why |-> fail]
    ELSE IF ub = "SIGSEGV" THEN [err |-> 0, why |-> "SIGSEGV"]
    ELSE IF fail = "av_frame_get_buffer" THEN [err |-> AVERROR(ENOMEM), why |-> fail]
    ELSE [err |-> 0, why |-> "ok"]

(****************************** inputs *************************************)
cuda == <<"c", "u", "d", "a">>
vaapi == <<"v", "a", "a", "p", "i">>

\* The pieces device specifications are drawn from: a type text, an
\* optional '=' name, a body.
TypeTexts == {cuda, vaapi, <<"x">>}

NameTexts == {<<>>, <<"=", "a">>, <<"=">> \o cuda \o <<"0">>}

BodyTexts ==
    {<<>>, <<":">>, <<":", "d", ",", "k", "=", "v">>, <<":", "d", ",", "k">>,
     <<"@", "a">>, <<",", "k", "=", "v">>}

Args == {t \o n \o b : t \in TypeTexts, n \in NameTexts, b \in BodyTexts}

\* The names lookups are made with.
LookupNames == {<<"a">>, <<"b">>, cuda \o <<"0">>, cuda \o <<"1">>, vaapi \o <<"0">>}

\* Codec tables hold at most MaxConfigs entries.
ConfigEntries ==
    [device_type : HWDeviceTypes,
     methods : {{AV_CODEC_HW_CONFIG_METHOD_HW_DEVICE_CTX},
                {AV_CODEC_HW_CONFIG_METHOD_HW_FRAMES_CTX},
                {AV_CODEC_HW_CONFIG_METHOD_HW_DEVICE_CTX,
                 AV_CODEC_HW_CONFIG_METHOD_HW_FRAMES_CTX}}]

Codecs == UNION {[1..n -> ConfigEntries] : n \in 0..MaxConfigs}

\* Without a hwaccel request the stream's device type is NONE.
DecodeRequests ==
    [hwaccel_id : {HWACCEL_GENERIC}, hwaccel_device_type : HWDeviceTypes, codec : Codecs]
    \cup [hwaccel_id : {HWACCEL_NONE}, hwaccel_device_type : {AV_HWDEVICE_TYPE_NONE},
          codec : Codecs]

EncodeRequests == [codec : Codecs]

DecodeFaults == {"none", "avcodec_set_hw_device_ctx", "av_buffer_ref"}

EncodeFaults == {"none", "avcodec_get_hw_frames_parameters", "avcodec_set_hw_frames_ctx"}

\* Filter nodes: the hardware upload filter or another one, the device
\* option not set. Graphs have at most MaxFilters nodes and a decoder whose
\* table has at most one entry.
FilterNodes == [name : {"hwupload", "scale"}, device : {<<>>}]

FilterCodecs == {codec \in Codecs : Len(codec) <= 1}

FilterGraphs ==
    UNION {[nb_inputs : {0, 1}, has_decoder : BOOLEAN, codec : FilterCodecs,
            filters : [1..n -> FilterNodes]] : n \in 0..MaxFilters}

\* Decoded frames have 1..MaxPlanes planes; remix maps have 0..MaxMap entries.
Frames ==
    UNION {[data : [1..m -> Samples], channel_layout : {m}, sample_rate : {44100, 48000},
            format : {"fltp"}, nb_samples : {1024}, pts : {0, 7}] : m \in 1..MaxPlanes}

\* The entries of a map are plane indices of the frame, or one below or one
\* above them.
RemixMaps(f) == UNION {[1..n -> (-1)..Len(f.data)] : n \in 0..MaxMap}

\* What an access outside the frames does.
RemixOutcomes == {"SIGSEGV", "goes on"}

RemixFailures == {"none", "av_frame_alloc", "av_frame_get_buffer"}

\* The allocation or library step that fails in a call ("none": no failure).
InitFailures ==
    {"none", "strndup_type", "strndup_name", "malloc_name", "strndup_device",
     "dict", "realloc", "mallocz"}

(**************************** the state ************************************)
\* call is the last call made and what it returned, until the caller takes it.
\* stream is the output stream a call was given, as the call leaves it; mem
\* is the account of the allocations of a call of an initializer.
NoStream == [hw_frames_ctx |-> NULL, pool_refs |-> 0, enc_hw_frames_ctx |-> NULL]

NoCall ==
    [op |-> "none", arg |-> <<>>, ret |-> 0, why |-> "", dev |-> NULL, req |-> NoReq,
     stream |-> NoStream, mem |-> NoMem]

InitCall(op, arg, r) ==
    [op |-> op, arg |-> arg, ret |-> r.err, why |-> r.why, dev |-> r.dev, req |-> r.req,
     stream |-> NoStream, mem |-> r.mem]

NoFrame ==
    [data |-> <<>>, channel_layout |-> 0, sample_rate |-> 0, format |-> "none",
     nb_samples |-> 0, pts |-> 0]

\* The activation of apply_audio_remix: where it is (pc), ret and the call
\* that set it (from), the local frame, whether ist->pkt holds a packet
\* (held), the packets read (reads), the calls of av_packet_unref on a held
\* packet (unrefs), the frames of the current packet that were remixed
\* (frames) and the packets whose frames were remixed (remixed).
NoApply ==
    [pc |-> "none", ret |-> 0, from |-> "none", frame |-> NULL, held |-> FALSE,
     reads |-> 0, unrefs |-> 0, frames |-> 0, remixed |-> 0]

Init ==
    /\ hw_devices = <<>>
    /\ refcnt = [c \in 1..MaxCtx |-> 0]
    /\ ist = [hw_device_ctx |-> NULL, hwaccel_device_ref |-> NULL]
    /\ frame = NoFrame
    /\ call = NoCall
    /\ apply = NoApply

InitFromString ==
    /\ call.op = "none"
    /\ \E arg \in Args :
        \E r \in {hw_device_init_from_string(hw_devices, refcnt, arg, fail, rt) :
                    fail \in InitFailures, rt \in RuntimeOutcomes} :
            /\ ~r.capped
            /\ Len(r.devs) <= MaxDevices
            /\ hw_devices' = r.devs
            /\ refcnt' = r.rc
            /\ call' = InitCall("init_from_string", arg, r)
            /\ UNCHANGED <<apply, ist, frame>>

InitFromType ==
    /\ call.op = "none"
    /\ \E type \in HWDeviceTypes :
        \E r \in {hw_device_init_from_type(hw_devices, refcnt, type, FALSE, <<>>, fail, rt) :
                    fail \in InitFailures, rt \in RuntimeOutcomes} :
            /\ ~r.capped
            /\ Len(r.devs) <= MaxDevices
            /\ hw_devices' = r.devs
            /\ refcnt' = r.rc
            /\ call' = InitCall("init_from_type", type, r)
            /\ UNCHANGED <<apply, ist, frame>>

FreeAll ==
    LET r == hw_device_free_all(hw_devices, refcnt)
    IN  /\ call.op = "none"
        /\ hw_devices' = r.devs
        /\ refcnt' = r.rc
        /\ call' = [NoCall EXCEPT !.op = "free_all"]
        /\ UNCHANGED <<apply, ist, frame>>

GetByName ==
    /\ call.op = "none"
    /\ \E name \in LookupNames :
        /\ call' = [NoCall EXCEPT !.op = "get_by_name", !.arg = name,
                                  !.dev = hw_device_get_by_name(hw_devices, name)]
        /\ UNCHANGED <<apply, hw_devices, refcnt, ist, frame>>

GetByType ==
    /\ call.op = "none"
    /\ \E type \in HWDeviceTypes :
        /\ call' = [NoCall EXCEPT !.op = "get_by_type", !.arg = type,
                                  !.dev = hw_device_get_by_type(hw_devices, type)]
        /\ UNCHANGED <<apply, hw_devices, refcnt, ist, frame>>

MatchByCodec ==
    /\ call.op = "none"
    /\ \E codec \in Codecs :
        /\ call' = [NoCall EXCEPT !.op = "match_by_codec", !.arg = codec,
                                  !.dev = hw_device_match_by_codec(hw_devices, codec)]
        /\ UNCHANGED <<apply, hw_devices, refcnt, ist, frame>>

BinderCall(op, in, r, s) ==
    [op |-> op, arg |-> in, ret |-> r.err, why |-> r.why, dev |-> r.dev, req |-> NoReq,
     stream |-> s, mem |-> NoMem]

\* The library calls hw_device_setup_for_encode makes, and so the ones
\* that can fail in it: none when it returns before it has a device.
EncodeFaultsAt(devs, in) ==
    IF hw_device_match_by_codec(devs, in.codec) # NULL THEN EncodeFaults ELSE {"none"}

\* A stream is set up once, when it is new.
SetupForDecode ==
    /\ call.op = "none"
    /\ ist.hw_device_ctx = NULL /\ ist.hwaccel_device_ref = NULL
    /\ \E in \in DecodeRequests :
        \E r \in {hw_device_setup_for_decode(hw_devices, refcnt, ist, in, fault) :
                    fault \in DecodeFaults} :
            /\ ist' = r.stream
            /\ refcnt' = r.rc
            /\ call' = BinderCall("setup_for_decode", in, r, NoStream)
            /\ UNCHANGED <<apply, hw_devices, frame>>

\* The output stream of a call is new: OutputStream is zero-initialized.
SetupForEncode ==
    /\ call.op = "none"
    /\ \E in \in EncodeRequests : \E fault \in EncodeFaultsAt(hw_devices, in) :
        LET r == hw_device_setup_for_encode(hw_devices, refcnt, NoStream, in, fault)
        IN  /\ call' = BinderCall("setup_for_encode", [codec |-> in.codec, fault |-> fault],
                                  r, r.stream)
            /\ UNCHANGED <<apply, hw_devices, refcnt, ist, frame>>

\* The caller takes the result of the last call; the next call can start.
Return ==
    /\ call.op # "none"
    /\ call' = NoCall
    /\ UNCHANGED <<apply, hw_devices, refcnt, ist, frame>>

Next ==
    \/ Return
    \/ InitFromString
    \/ InitFromType
    \/ FreeAll
    \/ GetByName
    \/ GetByType
    \/ MatchByCodec
    \/ SetupForDecode
    \/ SetupForEncode

Spec == Init /\ [][Next]_vars

(*********************** the remix specification ***************************)
InitRemix ==
    /\ hw_devices = <<>>
    /\ refcnt = [c \in 1..MaxCtx |-> 0]
    /\ ist = [hw_device_ctx |-> NULL, hwaccel_device_ref |-> NULL]
    /\ frame \in Frames
    /\ call = NoCall
    /\ apply = NoApply

\* The new frame has the planes of the source's channel layout.
RemixAudio ==
    /\ call.op = "none"
    /\ \E remix_map \in RemixMaps(frame) :
        \E r \in {remix_audio(frame, remix_map, fresh, fail, ub) :
                    fresh \in [1..frame.channel_layout -> Uninitialized],
                    fail \in RemixFailures, ub \in RemixOutcomes} :
            /\ frame' = r.frame
            /\ call' = [NoCall EXCEPT !.op = "remix_audio",
                                      !.arg = [frame |-> frame, remix_map |-> remix_map],
                                      !.ret = r.err, !.why = r.why]
            /\ UNCHANGED <<apply, hw_devices, refcnt, ist>>

\* After a call that did not return there is no caller to go back to.
ReturnRemix ==
    /\ call.op # "none"
    /\ call.why # "SIGSEGV"
    /\ call' = NoCall
    /\ UNCHANGED <<apply, hw_devices, refcnt, ist, frame>>

NextRemix ==
    \/ RemixAudio
    \/ ReturnRemix

SpecRemix == InitRemix /\ [][NextRemix]_vars

(********************* the apply_audio_remix specification ******************)
\* ret is not initialized; it is assigned before it is first read.
InitApply ==
    /\ hw_devices = <<>>
    /\ refcnt = [c \in 1..MaxCtx |-> 0]
    /\ ist = [hw_device_ctx |-> NULL, hwaccel_device_ref |-> NULL]
    /\ frame = NoFrame
    /\ call = NoCall
    /\ apply = [NoApply EXCEPT !.pc = "read"]

\* while ((ret = av_read_frame(ist->avf_ctx, ist->pkt)) >= 0): the input has
\* at most MaxPackets packets.
ApplyRead ==
    /\ apply.pc = "read"
    /\ \E r \in ReadOutcomes :
        /\ r.ret >= 0 => apply.reads < MaxPackets
        /\ apply' = [apply EXCEPT !.pc = apply_after_read(r.ret, r.stream_index, 0),
                                  !.ret = r.ret,
                                  !.from = "av_read_frame",
                                  !.held = IF r.ret >= 0 THEN TRUE ELSE @,
                                  !.reads = IF r.ret >= 0 THEN @ + 1 ELSE @]
    /\ UNCHANGED <<hw_devices, refcnt, ist, frame, call>>

ApplySend ==
    /\ apply.pc = "send"
    /\ \E ret \in DecoderOutcomes :
        apply' = [apply EXCEPT !.pc = apply_after_send(ret), !.ret = ret,
                               !.from = "avcodec_send_packet"]
    /\ UNCHANGED <<hw_devices, refcnt, ist, frame, call>>

\* avcodec_receive_frame(ist->dec_ctx, frame) with frame = NULL; a packet
\* gives at most MaxFrames frames.
ApplyReceive ==
    /\ apply.pc = "receive"
    /\ \E ret \in DecoderOutcomes, ub \in NullFrameOutcomes :
        /\ ret >= 0 => apply.frames < MaxFrames
        /\ apply' = IF ub = "SIGSEGV" THEN [apply EXCEPT !.pc = "SIGSEGV"]
                    ELSE [apply EXCEPT !.pc = apply_after_receive(ret), !.ret = ret,
                                       !.from = "avcodec_receive_frame"]
    /\ UNCHANGED <<hw_devices, refcnt, ist, frame, call>>

ApplyRemix ==
    /\ apply.pc = "remix"
    /\ \E fail \in RemixFailures, ub \in NullFrameOutcomes :
        LET r == remix_audio_null(fail, ub)
        IN  apply' = IF r.why = "SIGSEGV" THEN [apply EXCEPT !.pc = "SIGSEGV"]
                     ELSE [apply EXCEPT !.pc = apply_after_remix(r.err), !.ret = r.err,
                                        !.from = "remix_audio",
                                        !.frames = IF r.err >= 0 THEN @ + 1 ELSE @]
    /\ UNCHANGED <<hw_devices, refcnt, ist, frame, call>>

ApplyAfterInner ==
    /\ apply.pc = "after"
    /\ apply' = [apply EXCEPT !.pc = apply_after_inner(apply.ret),
                              !.frames = IF apply_after_inner(apply.ret) = "read" THEN 0 ELSE @,
                              !.remixed = IF apply_after_inner(apply.ret) = "read"
                                             /\ apply.frames > 0
                                          THEN @ + 1 ELSE @]
    /\ UNCHANGED <<hw_devices, refcnt, ist, frame, call>>

\* av_packet_unref(ist->pkt), then the test of the outer while.
ApplyUnref ==
    /\ apply.pc = "unref"
    /\ apply' = [apply EXCEPT !.pc = "read", !.held = FALSE,
                              !.unrefs = IF apply.held THEN @ + 1 ELSE @,
                              !.frames = 0]
    /\ UNCHANGED <<hw_devices, refcnt, ist, frame, call>>

\* av_frame_free(&frame) of the null frame, and return ret.
ApplyReturn ==
    /\ apply.pc = "free"
    /\ apply' = [apply EXCEPT !.pc = "done"]
    /\ UNCHANGED <<hw_devices, refcnt, ist, frame, call>>

NextApply ==
    \/ ApplyRead
    \/ ApplySend
    \/ ApplyReceive
    \/ ApplyRemix
    \/ ApplyAfterInner
    \/ ApplyUnref
    \/ ApplyReturn

SpecApply == InitApply /\ [][NextApply]_vars

(************************* the naming specification *************************)
\* A registry of n devices of one type whose names are the default names of
\* the type in order, the device at index hole being named "a" instead.
NamedRegistry(n, hole, type) ==
    [i \in 1..n |->
        [name |-> IF i - 1 = hole THEN <<"a">>
                  ELSE av_hwdevice_get_type_name(type) \o Decimal(i - 1),
         type |-> type, device_ref |-> 1]]

\* Small registries of either type, and registries that hold all the default
\* names of a type, or all but the last.
NamedRegistries ==
    {NamedRegistry(n, hole, type) :
        n \in 0..MaxDevices, hole \in {-1, 0}, type \in HWDeviceTypes}
    \cup {NamedRegistry(n, -1, "CUDA") : n \in {index_limit - 1, index_limit}}

\* The devices of the registry share context 1.
InitNames ==
    /\ hw_devices \in NamedRegistries
    /\ refcnt = [c \in 1..MaxCtx |-> IF c = 1 THEN Len(hw_devices) ELSE 0]
    /\ ist = [hw_device_ctx |-> NULL, hwaccel_device_ref |-> NULL]
    /\ frame = NoFrame
    /\ call = NoCall
    /\ apply = NoApply

\* The failures of a call that names its device by default.
NameFailures == {"none", "malloc_name", "mallocz"}

\* The registry grows to MaxDevices devices, or to index_limit devices.
NamesCap(devs, r) ==
    \/ Len(r.devs) <= MaxDevices
    \/ Len(r.devs) <= Len(devs)
    \/ Len(r.devs) = index_limit

\* hw_device_init_from_string with a specification that is a type name.
NameFromString ==
    /\ call.op = "none"
    /\ \E type \in HWDeviceTypes :
        \E r \in {hw_device_init_from_string(hw_devices, refcnt,
                      av_hwdevice_get_type_name(type), fail, rt) :
                    fail \in NameFailures, rt \in RuntimeOutcomes} :
            /\ ~r.capped
            /\ NamesCap(hw_devices, r)
            /\ hw_devices' = r.devs
            /\ refcnt' = r.rc
            /\ call' = InitCall("init_from_string", av_hwdevice_get_type_name(type), r)
            /\ UNCHANGED <<apply, ist, frame>>

NameFromType ==
    /\ call.op = "none"
    /\ \E type \in HWDeviceTypes :
        \E r \in {hw_device_init_from_type(hw_devices, refcnt, type, FALSE, <<>>, fail, rt) :
                    fail \in NameFailures, rt \in RuntimeOutcomes} :
            /\ ~r.capped
            /\ NamesCap(hw_devices, r)
            /\ hw_devices' = r.devs
            /\ refcnt' = r.rc
            /\ call' = InitCall("init_from_type", type, r)
            /\ UNCHANGED <<apply, ist, frame>>

NextNames ==
    \/ NameFromString
    \/ NameFromType
    \/ Return

SpecNames == InitNames /\ [][NextNames]_vars

(************************ the filter specification **************************)
\* graph is the nodes of the graph as the call leaves them.
FilterCall(fg, fails, r) ==
    [op |-> "setup_for_filter", arg |-> [fg |-> fg, fails |-> fails], ret |-> r.err,
     why |-> r.why, dev |-> r.dev, req |-> NoReq, stream |-> NoStream, mem |-> NoMem,
     graph |-> r.filters]

SetupForFilter ==
    /\ call.op = "none"
    /\ \E fg \in FilterGraphs : \E fails \in SUBSET (1..Len(fg.filters)) :
        /\ call' = FilterCall(fg, fails, hw_device_setup_for_filter(hw_devices, fg, fails))
        /\ UNCHANGED <<apply, hw_devices, refcnt, ist, frame>>

NextFilter ==
    \/ InitFromType
    \/ SetupForFilter
    \/ Return

SpecFilter == Init /\ [][NextFilter]_vars

(***************************** the claims **********************************)
cuda0 == cuda \o <<"0">>

cuda1 == cuda \o <<"1">>

\* The steps of an initializer that can fail for lack of memory or in the
\* runtime, as call.why names them.
StepFailures ==
    {"strndup_type", "strndup_name", "malloc_name", "strndup_device", "dict",
     "realloc", "mallocz", "create"}

InitOps == {"init_from_string", "init_from_type"}

\* The registered devices named name.
Named(devs, name) == {i \in 1..Len(devs) : devs[i].name = name}

\* The registered devices of type type.
OfType(devs, type) == {i \in 1..Len(devs) : devs[i].type = type}

\* The specification type=name:path,opt=val.
FullSpec(type, name) ==
    av_hwdevice_get_type_name(type) \o <<"=">> \o name
        \o <<":", "d", ",", "k", "=", "v">>

\* C1: for a specification type=name:path,opt=val with a known type, when no
\* allocation and no runtime creation fails: if name is not registered the
\* call succeeds and hw_device_get_by_name(name) then returns a device of
\* that type; if name is registered the call fails with AVERROR(EINVAL)
\* and registers nothing.
C1_ParseThenLookup ==
    [][\A type \in HWDeviceTypes, name \in {<<"a">>, cuda0} :
          (/\ call'.op = "init_from_string"
           /\ call'.arg = FullSpec(type, name)
           /\ call'.why \notin StepFailures)
          => IF Named(hw_devices, name) = {}
             THEN /\ call'.ret = 0
                  /\ hw_device_get_by_name(hw_devices', name) # NULL
                  /\ hw_device_get_by_name(hw_devices', name) \in Named(hw_devices', name)
                  /\ hw_devices'[hw_device_get_by_name(hw_devices', name)].type = type
                  /\ call'.dev = hw_device_get_by_name(hw_devices', name)
             ELSE /\ call'.ret = AVERROR(EINVAL)
                  /\ hw_devices' = hw_devices]_vars

\* A second initialization with the name of a registered device of the
\* other type has failed.
C1_Witness ==
    /\ call.op = "init_from_string"
    /\ call.arg = FullSpec("CUDA", <<"a">>)
    /\ call.ret = AVERROR(EINVAL)
    /\ call.why = "named device already exists"
    /\ \E i \in Named(hw_devices, <<"a">>) : hw_devices[i].type = "VAAPI"

C3_UniqueNames ==
    \A i, j \in 1..Len(hw_devices) :
        i # j => hw_devices[i].name # hw_devices[j].name

\* The default name skipped a name an explicit specification had taken.
C3_Witness ==
    /\ Len(hw_devices) = 2
    /\ hw_devices[1].name = cuda0 /\ hw_devices[1].type = "VAAPI"
    /\ hw_devices[2].name = cuda1 /\ hw_devices[2].type = "CUDA"
    /\ call.op = "init_from_type"

\* C4: hw_device_get_by_type(T) returns the device of type T when exactly
\* one is registered, and a null pointer when none or several are.
C4_GetByType ==
    /\ call.op = "get_by_type"
          => IF Cardinality(OfType(hw_devices, call.arg)) = 1
             THEN call.dev \in OfType(hw_devices, call.arg)
             ELSE call.dev = NULL
    /\ \A type \in HWDeviceTypes :
          IF Cardinality(OfType(hw_devices, type)) = 1
          THEN hw_device_get_by_type(hw_devices, type) \in OfType(hw_devices, type)
          ELSE hw_device_get_by_type(hw_devices, type) = NULL

\* A lookup by a type two devices have returned a null pointer.
C4_Witness ==
    /\ call.op = "get_by_type"
    /\ Cardinality(OfType(hw_devices, call.arg)) = 2
    /\ call.dev = NULL

\* The references the registry entries hold on buffer c.
RegistryRefs(devs, c) == Cardinality({i \in 1..Len(devs) : devs[i].device_ref = c})

\* C5: hw_device_free_all leaves an empty registry in which every lookup by
\* name and by type returns a null pointer; it releases each entry's
\* reference once, so on an empty registry it changes nothing.
C5_FreeAll ==
    [][call'.op = "free_all"
          => /\ hw_devices' = <<>>
             /\ \A name \in LookupNames : hw_device_get_by_name(hw_devices', name) = NULL
             /\ \A type \in HWDeviceTypes : hw_device_get_by_type(hw_devices', type) = NULL
             /\ \A c \in 1..MaxCtx : refcnt'[c] = refcnt[c] - RegistryRefs(hw_devices, c)
             /\ hw_devices = <<>> => refcnt' = refcnt
             /\ ist' = ist]_vars

\* hw_device_free_all has run and a stream still refers to a device context
\* the registry once held.
C5_Witness ==
    /\ call.op = "free_all"
    /\ hw_devices = <<>>
    /\ ist.hwaccel_device_ref # NULL

\* The entries of a codec table, by index, that declare method m.
WithMethod(codec, m) == {i \in 1..Len(codec) : m \in codec[i].methods}

\* C6 as stated: hw_device_match_by_codec returns a device of the first
\* table entry's type that is the type of a registered device, and a null
\* pointer only when no entry's type is registered.
C6_FirstRegisteredType ==
    call.op = "match_by_codec"
        => LET cand == {i \in 1..Len(call.arg) :
                           OfType(hw_devices, call.arg[i].device_type) # {}}
           IN  IF cand = {} THEN call.dev = NULL
               ELSE /\ call.dev # NULL
                    /\ hw_devices[call.dev].type = call.arg[Min(cand)].device_type

\* The entries hw_device_match_by_codec can answer with: they declare the
\* device-context method and exactly one registered device has their type.
Matchable(devs, codec) ==
    {i \in WithMethod(codec, AV_CODEC_HW_CONFIG_METHOD_HW_DEVICE_CTX) :
        Cardinality(OfType(devs, codec[i].device_type)) = 1}

\* C6 amended: hw_device_match_by_codec returns the only registered device
\* of the type of the first table entry that declares the device-context
\* method and whose type exactly one registered device has, and a null
\* pointer when there is no such entry; the answer is that of the registry
\* as it is at the call.
C6_FirstMatchableEntry ==
    call.op = "match_by_codec"
        => LET cand == Matchable(hw_devices, call.arg)
           IN  IF cand = {} THEN call.dev = NULL
               ELSE /\ call.dev # NULL
                    /\ OfType(hw_devices, call.arg[Min(cand)].device_type) = {call.dev}

\* The match skipped the first entry of the table and answered the only
\* device of the registry for the second.
C6_Witness ==
    /\ call.op = "match_by_codec"
    /\ Len(call.arg) = 2
    /\ Matchable(hw_devices, call.arg) = {2}
    /\ Len(hw_devices) = 1
    /\ call.dev = 1

\* The entries of the decoder's table that bind by device context and have
\* the requested type.
Requested(in) ==
    {i \in WithMethod(in.codec, AV_CODEC_HW_CONFIG_METHOD_HW_DEVICE_CTX) :
        in.codec[i].device_type = in.hwaccel_device_type}

NewInputStream == [hw_device_ctx |-> NULL, hwaccel_device_ref |-> NULL]

\* C7: with a hwaccel request, hw_device_setup_for_decode fails with
\* "Decoder does not support any device type" when the table has no
\* device-context entry of the requested type, and with "No suitable hwaccel
\* device found" when it has one and no device of that type is registered;
\* nothing is bound in either case.
C7_TwoDecodeFailures ==
    (call.op = "setup_for_decode" /\ call.arg.hwaccel_id # HWACCEL_NONE)
        => /\ Requested(call.arg) = {}
              => /\ call.ret < 0
                 /\ call.why = "Decoder does not support any device type"
                 /\ ist = NewInputStream
           /\ (/\ Requested(call.arg) # {}
               /\ OfType(hw_devices, call.arg.hwaccel_device_type) = {})
              => /\ call.ret < 0
                 /\ call.why = "No suitable hwaccel device found"
                 /\ ist = NewInputStream

\* C8: a successful hw_device_setup_for_decode with a hwaccel request binds
\* the decoder to the context of the registered device of the requested
\* type and gives the stream one more counted reference to it; without a
\* request it succeeds and changes nothing; hw_device_free_all leaves the
\* stream's reference in place, and the context a stream refers to always
\* has a reference count of at least 1.
C8_StreamOwnsReference ==
    [][/\ (/\ call'.op = "setup_for_decode"
           /\ call'.arg.hwaccel_id # HWACCEL_NONE
           /\ call'.ret = 0)
          => /\ OfType(hw_devices, call'.arg.hwaccel_device_type) = {call'.dev}
             /\ ist'.hw_device_ctx = hw_devices[call'.dev].device_ref
             /\ ist'.hwaccel_device_ref = hw_devices[call'.dev].device_ref
             /\ refcnt' = [refcnt EXCEPT ![hw_devices[call'.dev].device_ref] = @ + 1]
             /\ hw_devices' = hw_devices
       /\ (/\ call'.op = "setup_for_decode"
           /\ call'.arg.hwaccel_id = HWACCEL_NONE)
          => /\ call'.ret = 0
             /\ UNCHANGED <<hw_devices, refcnt, ist>>
       /\ (call'.op = "free_all" /\ ist.hwaccel_device_ref # NULL)
          => /\ ist' = ist
             /\ refcnt'[ist.hwaccel_device_ref] >= 1
       /\ ist'.hwaccel_device_ref # NULL => refcnt'[ist'.hwaccel_device_ref] >= 1]_vars

\* The registry is torn down and the stream's reference is the last one on
\* the context it was bound to.
C8_Witness ==
    /\ call.op = "free_all"
    /\ ist.hwaccel_device_ref # NULL
    /\ ist.hw_device_ctx = ist.hwaccel_device_ref
    /\ refcnt[ist.hwaccel_device_ref] = 1

\* Whether the encoder's codec and the runtime give a frame pool: a device
\* is matched, the table has a frame-context entry of its type and the
\* negotiation does not fail.
PoolObtained(devs, in) ==
    /\ Matchable(devs, in.codec) # {}
    /\ in.fault # "avcodec_get_hw_frames_parameters"
    /\ \E i \in WithMethod(in.codec, AV_CODEC_HW_CONFIG_METHOD_HW_FRAMES_CTX) :
          in.codec[i].device_type = in.codec[Min(Matchable(devs, in.codec))].device_type

\* C9: hw_device_setup_for_encode returns 0 and binds nothing when no device
\* matches or no pool is obtained; with a pool it returns an error exactly
\* when binding the pool to the encoder fails, and then the stream's pool
\* handle is null and released; otherwise the pool is bound.
C9_EncodeFallback ==
    call.op = "setup_for_encode"
        => IF ~PoolObtained(hw_devices, call.arg)
           THEN call.ret = 0 /\ call.stream = NoStream
           ELSE IF call.arg.fault = "avcodec_set_hw_frames_ctx"
           THEN /\ call.ret < 0
                /\ call.stream.hw_frames_ctx = NULL
                /\ call.stream.pool_refs = 0
                /\ call.stream.enc_hw_frames_ctx = NULL
           ELSE /\ call.ret = 0
                /\ call.stream.hw_frames_ctx # NULL
                /\ call.stream.pool_refs = 1
                /\ call.stream.enc_hw_frames_ctx = call.stream.hw_frames_ctx

\* Binding the pool failed: the error is returned and the pool handle is null.
C9_Witness ==
    /\ call.op = "setup_for_encode"
    /\ call.ret < 0
    /\ call.why = "avcodec_set_hw_frames_ctx"
    /\ call.stream.hw_frames_ctx = NULL

\* C10: a remix_audio that returns 0 leaves the frame with exactly
\* remix_size planes, plane i a copy of the source's plane remix_map[i],
\* and the source's sample rate, format, sample count and timestamp; with
\* remix_size = 0 and no allocation failure it returns 0.
C10_RemixPlanes ==
    call.op = "remix_audio"
        => LET src == call.arg.frame
               remix_map == call.arg.remix_map
           IN  /\ call.why = "ok"
                  => /\ call.ret = 0
                     /\ Len(frame.data) = Len(remix_map)
                     /\ \A i \in 1..Len(remix_map) :
                           frame.data[i] = src.data[remix_map[i] + 1]
                     /\ frame.sample_rate = src.sample_rate
                     /\ frame.format = src.format
                     /\ frame.nb_samples = src.nb_samples
                     /\ frame.pts = src.pts
               /\ (remix_map = <<>> /\ call.why \notin RemixFailures)
                  => call.why = "ok" /\ call.ret = 0 /\ frame.data = <<>>

DecoderCalls == {"avcodec_send_packet", "avcodec_receive_frame"}

NotErrors == {AVERROR(EAGAIN), AVERROR_EOF}

\* C11: in apply_audio_remix an EAGAIN or end-of-stream result of the packet
\* send or of the frame receive never ends the outer loop; any other negative
\* result of send, receive or remix ends it and is the value returned.
C11_DecoderResults ==
    /\ (apply.pc \in {"free", "done"} /\ apply.from \in DecoderCalls)
          => apply.ret \notin NotErrors
    /\ (apply.pc = "read" /\ apply.from \in DecoderCalls \cup {"remix_audio"})
          => apply.ret \in NotErrors
    /\ (apply.pc = "done" /\ apply.from \in DecoderCalls \cup {"remix_audio"})
          => apply.ret < 0

\* C12: in apply_audio_remix every packet read is released exactly once
\* before the next packet is read or the function returns.
C12_PacketReleased ==
    apply.pc \in {"read", "done"} => ~apply.held /\ apply.unrefs = apply.reads

\* C20: apply_audio_remix never returns a non-negative value: the loop is
\* left only with the negative result of the read, the send, the receive or
\* the remix, and that result is returned; a run whose packets are all
\* decoded and remixed returns the demuxer's end-of-input code.
C20_NeverSuccess ==
    /\ apply.pc \in {"free", "done"}
          => /\ apply.ret < 0
             /\ apply.from \in DecoderCalls \cup {"av_read_frame", "remix_audio"}
    /\ (apply.pc = "done" /\ apply.from = "av_read_frame")
          => apply.ret \in {AVERROR_EOF, AVERROR(EIO)}

\* Every packet of the input was read, each gave frames that were remixed,
\* and the function returned the demuxer's end-of-input code.
C20_Witness ==
    /\ apply.pc = "done"
    /\ apply.reads = MaxPackets
    /\ apply.remixed = MaxPackets
    /\ apply.from = "av_read_frame"
    /\ apply.ret = AVERROR_EOF

\* The type a call names its device after: the argument of
\* hw_device_init_from_type, the type named by the argument of
\* hw_device_init_from_string.
NamedType(c) ==
    IF c.op = "init_from_type" THEN c.arg ELSE av_hwdevice_find_type_by_name(c.arg)

\* Whether a device is named "<type-name><i>".
Taken(devs, type, i) ==
    \E j \in 1..Len(devs) : devs[j].name = av_hwdevice_get_type_name(type) \o Decimal(i)

\* C13: a device created without an explicit name is named "<type-name><i>"
\* for the smallest i in 0..999 such that no registered device has that
\* name; when all 1000 names are taken the creation fails with
\* AVERROR(ENOMEM) and registers nothing.
C13_DefaultName ==
    [][(call'.op \in InitOps /\ call.op = "none")
          => LET type == NamedType(call')
             IN  IF \A i \in 0..(index_limit - 1) : Taken(hw_devices, type, i)
                 THEN /\ call'.ret = AVERROR(ENOMEM)
                      /\ hw_devices' = hw_devices
                      /\ refcnt' = refcnt
                 ELSE call'.ret = 0
                      => /\ Len(hw_devices') = Len(hw_devices) + 1
                         /\ call'.dev = Len(hw_devices')
                         /\ hw_devices'[call'.dev].type = type
                         /\ \E i \in 0..(index_limit - 1) :
                               /\ hw_devices'[call'.dev].name =
                                      av_hwdevice_get_type_name(type) \o Decimal(i)
                               /\ ~Taken(hw_devices, type, i)
                               /\ \A k \in 0..(i - 1) : Taken(hw_devices, type, k)
                         /\ SubSeq(hw_devices', 1, Len(hw_devices)) = hw_devices]_vars

\* The registry holds the 1000 default names of the type, the last of them
\* being the one taken last, and a further creation of that type has failed
\* for want of a name.
C13_Witness ==
    /\ call.op \in InitOps
    /\ call.ret = AVERROR(ENOMEM)
    /\ call.why = "no free name"
    /\ Len(hw_devices) = index_limit
    /\ hw_devices[index_limit].name = cuda \o Decimal(index_limit - 1)
    /\ hw_devices[index_limit].device_ref = 2

\* C14: on every return of hw_device_init_from_string and
\* hw_device_init_from_type each allocation the call made (type name, name,
\* path, options, context handle) is released exactly once, except that a
\* successful call hands the name and the context handle to the new device
\* and does not release them; nothing is released that was not allocated.
C14_ReleasedOnce ==
    call.op \in InitOps
        => /\ \A k \in AllocKinds :
                 IF k \in call.mem.made
                 THEN call.mem.freed[k] + (IF k \in call.mem.kept THEN 1 ELSE 0) = 1
                 ELSE call.mem.freed[k] = 0 /\ k \notin call.mem.kept
           /\ call.mem.kept = IF call.ret = 0 THEN {"name", "device_ref"} ELSE {}
           /\ (call.op = "init_from_string" /\ call.why # "strndup_type")
                 => "type_name" \in call.mem.made
           /\ call.why \in {"realloc", "mallocz"} => "device_ref" \in call.mem.made
           /\ call.ret = 0 => hw_devices[call.dev].device_ref # NULL

\* The registry could not grow after the type name, the name, the path, the
\* options and the context had been allocated: each was released once.
C14_Witness ==
    /\ call.op = "init_from_string"
    /\ call.ret = AVERROR(ENOMEM)
    /\ call.why = "realloc"
    /\ call.mem.made = AllocKinds
    /\ \A k \in AllocKinds : call.mem.freed[k] = 1
    /\ call.mem.kept = {}

\* The references to buffer c that the stream holds.
StreamRefs(s, c) == IF s.hwaccel_device_ref = c THEN 1 ELSE 0

\* C15: a registered device leaves the registry only through
\* hw_device_free_all: after any initializations, failed ones included, and
\* one hw_device_free_all, every context reference that was handed to a
\* registry entry has been released, so the only references left are the
\* ones streams took.
C15_FreeAllReleasesAll ==
    /\ call.op = "free_all" => \A c \in 1..MaxCtx : refcnt[c] = StreamRefs(ist, c)
    /\ \A c \in 1..MaxCtx : refcnt[c] = RegistryRefs(hw_devices, c) + StreamRefs(ist, c)

\* The frame-context entries of a codec table whose type exactly one
\* registered device has.
FrameCapable(devs, codec) ==
    {i \in WithMethod(codec, AV_CODEC_HW_CONFIG_METHOD_HW_FRAMES_CTX) :
        Cardinality(OfType(devs, codec[i].device_type)) = 1}

\* C16 as stated: whenever the codec's table has a frame-context entry whose
\* type is the type of exactly one registered device and the negotiation and
\* the bind succeed, hw_device_setup_for_encode binds a frame pool to the
\* encoder, whether or not an entry of that type declares the device-context
\* method.
C16_FrameContextChoice ==
    (/\ call.op = "setup_for_encode"
     /\ call.arg.fault = "none"
     /\ FrameCapable(hw_devices, call.arg.codec) # {})
        => /\ call.ret = 0
           /\ call.stream.enc_hw_frames_ctx # NULL

\* C16 amended: the device of an encode binding is the one
\* hw_device_match_by_codec answers, the only registered device of the type
\* of the first device-context entry whose type exactly one registered
\* device has; when the negotiation and the bind succeed a frame pool is
\* bound exactly when the table also has a frame-context entry of that
\* device's type, and nothing is bound otherwise.
C16_DeviceContextChoice ==
    (call.op = "setup_for_encode" /\ call.arg.fault = "none")
        => LET codec == call.arg.codec
               cand == Matchable(hw_devices, codec)
           IN  /\ call.ret = 0
               /\ IF cand = {} THEN call.dev = NULL
                  ELSE OfType(hw_devices, codec[Min(cand)].device_type) = {call.dev}
               /\ call.stream.enc_hw_frames_ctx # NULL
                     <=> /\ call.dev # NULL
                         /\ \E i \in WithMethod(codec, AV_CODEC_HW_CONFIG_METHOD_HW_FRAMES_CTX) :
                               codec[i].device_type = hw_devices[call.dev].type
               /\ call.stream.enc_hw_frames_ctx = NULL => call.stream = NoStream

\* The table's only entry is a frame-context entry of the type of the only
\* registered device: no device is matched and nothing is bound.
C16_Witness ==
    /\ call.op = "setup_for_encode"
    /\ Len(call.arg.codec) = 1
    /\ FrameCapable(hw_devices, call.arg.codec) = {1}
    /\ Matchable(hw_devices, call.arg.codec) = {}
    /\ Len(hw_devices) = 1
    /\ call.ret = 0
    /\ call.dev = NULL
    /\ call.stream = NoStream

\* The options text "k=v" and the dictionary it parses to.
OptionsText == <<"k", "=", "v">>

OptionsDict == <<<<<<"k">>, <<"v">>>>>>

\* C17: the type of a specification ends at the first of ':', '=', '@' and
\* ',', so a specification type,opt=val with a known type and no name takes
\* the options-only branch: it registers a device of that type under a
\* default name, created with a null path and the given options, just as
\* type=name,opt=val does under the name given.
C17_OptionsOnly ==
    \A type \in HWDeviceTypes :
        /\ (/\ call.op = "init_from_string"
            /\ call.arg = av_hwdevice_get_type_name(type) \o <<",">> \o OptionsText
            /\ call.why \notin StepFailures)
              => /\ call.ret = 0
                 /\ call.req = CreateReq(type, FALSE, <<>>, OptionsDict)
                 /\ hw_devices[call.dev].type = type
        /\ (/\ call.op = "init_from_string"
            /\ call.arg = av_hwdevice_get_type_name(type) \o <<"=", "a", ",">> \o OptionsText
            /\ call.why \notin StepFailures
            /\ call.why # "named device already exists")
              => /\ call.ret = 0
                 /\ call.req = CreateReq(type, FALSE, <<>>, OptionsDict)
                 /\ hw_devices[call.dev].type = type
                 /\ hw_devices[call.dev].name = <<"a">>

\* The nodes of a graph that are hardware upload filters.
Uploads(filters) == {i \in 1..Len(filters) : filters[i].name = "hwupload"}

\* C18: when the sink has an input, a decoder resolves and a device matches,
\* hw_device_setup_for_filter sets the device option of every hwupload node,
\* in graph order, to the device's name and leaves the other nodes as they
\* were; at the first node whose option-set fails it returns that error and
\* no node from the failing one on is modified. When the sink has no input,
\* no decoder resolves or no device matches, it returns 0 and modifies no
\* node.
C18_FilterNodes ==
    call.op = "setup_for_filter"
        => LET fg == call.arg.fg
               failing == Uploads(fg.filters) \cap call.arg.fails
               last == IF failing = {} THEN Len(fg.filters) ELSE Min(failing) - 1
           IN  IF fg.nb_inputs = 0 \/ ~fg.has_decoder \/ Matchable(hw_devices, fg.codec) = {}
               THEN call.ret = 0 /\ call.graph = fg.filters /\ call.dev = NULL
               ELSE /\ OfType(hw_devices, fg.codec[Min(Matchable(hw_devices, fg.codec))].device_type)
                          = {call.dev}
                    /\ IF failing = {} THEN call.ret = 0 ELSE call.ret = AVERROR(EINVAL)
                    /\ Len(call.graph) = Len(fg.filters)
                    /\ \A i \in 1..Len(fg.filters) :
                          call.graph[i] =
                              IF i \in Uploads(fg.filters) /\ i <= last
                              THEN [fg.filters[i] EXCEPT !.device = hw_devices[call.dev].name]
                              ELSE fg.filters[i]

\* Of three hwupload nodes the first took the device's name, the option-set
\* of the second failed and the third was left alone.
C18_Witness ==
    /\ call.op = "setup_for_filter"
    /\ Len(call.arg.fg.filters) = 3
    /\ Uploads(call.arg.fg.filters) = {1, 2, 3}
    /\ call.arg.fails = {2}
    /\ call.ret < 0
    /\ call.dev # NULL
    /\ call.graph[1].device = hw_devices[call.dev].name
    /\ call.graph[2].device = <<>>
    /\ call.graph[3].device = <<>>

\* The entries of a remix map that are not plane indices of frame f.
OutOfRange(f, remix_map) ==
    {i \in 1..Len(remix_map) : remix_map[i] \notin 0..(Len(f.data) - 1)}

\* C19: remix_audio validates every remix_map[i] against the plane count of
\* the source before it copies: with an index out of range it returns an
\* error, reads no plane outside the source and leaves the frame untouched.
C19_ValidatedMap ==
    (/\ call.op = "remix_audio"
     /\ OutOfRange(call.arg.frame, call.arg.remix_map) # {})
        => /\ call.ret < 0
           /\ call.why \notin {"SIGSEGV", "out of bounds"}
           /\ frame = call.arg.frame

====
